---- MODULE Spec2Model ----
(***************************************************************************)
(* Model of the media-asset catalog service of src/server.js: the          *)
(* read-through cache in front of the Prisma record store (fetchAndCache), *)
(* the by-id and tag-listing lookups, photo and video upload, soft-delete, *)
(* the handlers registered for GET and DELETE /v1/videos, the health check *)
(* and the catch-all route; and of the paged photo listing of the earlier  *)
(* revision of the server, src/unnamed/part_001.                           *)
(*                                                                         *)
(* Every handler is an async function: it suspends at each await of a      *)
(* Redis or Prisma call, and other handlers run in between.  One action of *)
(* the model is one such call executing in Redis or in the store, followed *)
(* by the handler's synchronous code up to its next await or its response. *)
(* The code between a request's arrival and its first call reads no shared *)
(* state, so it is part of the action of that first call.                  *)
(***************************************************************************)
EXTENDS Integers, Sequences, FiniteSets, TLC

\* ------------------------------------------------------------------ bounds
\* seconds the clock advances in one Tick
TickStep == 4000
\* the clock stops advancing here
MaxTime == 4000
\* uploads are admitted by the model while the Photo table holds fewer rows
MaxRows == 1
\* the shorter clock step and the longer horizon of SpecTtl
FineStep == 1800
FineMax == 5400
\* uploads are admitted by SpecSeq, SpecListings and SpecPaged while the
\* table holds fewer rows
SeqRows == 2

\* ------------------------------------------------------- program constants
\* a TTL of one day
TTL_day == 24 * 3600

\* TTL of every cache entry, in seconds (setEx)
TTL == 3600
\* capacity ceiling of the Photo table
PhotoLimit == 50
\* capacity ceiling of the Video table
VideoLimit == 20

\* ------------------------------------------------------------ JS values
\* null / undefined, a Date and a string holding a Date's ISO form
Null == [k |-> "null", t |-> 0]
Date(t) == [k |-> "date", t |-> t]
IsoString(t) == [k |-> "string", t |-> t]

\* a request parameter: a string (a sequence of characters), undefined
\* (absent from the request) or an array (a repeated query key)
Undefined == [type |-> "undefined", v |-> <<>>]
Str(s) == [type |-> "string", v |-> s]
Arr(a) == [type |-> "array", v |-> a]

\* ids a client may supply as imageId or look up
ClientIds == {<<"x", "1">>}
\* the handlers that run concurrently
Reqs == {1, 2, 3}

\* the decimal digits of a natural number, as characters
DigitChars == <<"0", "1", "2", "3", "4", "5", "6", "7", "8", "9">>

RECURSIVE Decimal(_)
Decimal(n) ==
    IF n < 10 THEN <<DigitChars[n + 1]>>
    ELSE Decimal(n \div 10) \o <<DigitChars[(n % 10) + 1]>>

\* the ids cuid() generates, in the order it generates them: enough of them
\* for a table filled past its ceiling by every handler at once
CuidSeq == [i \in 1..(PhotoLimit + Cardinality(Reqs)) |-> <<"c">> \o Decimal(i)]

VARIABLES
    photos,   \* the Photo table: id -> row
    videos,   \* the Video table: id -> row
    cache,    \* Redis: key -> [value, writtenAt, expiresAt]
    now,      \* the clock, in seconds
    req       \* per handler: the request, its position and its response

vars == <<photos, videos, cache, now, req>>

\* ------------------------------------------------------------ strings
\* String.prototype.split(sep) on a sequence of characters
RECURSIVE SplitFrom(_, _, _, _)
SplitFrom(s, sep, i, cur) ==
    IF i > Len(s) THEN <<cur>>
    ELSE IF s[i] = sep THEN <<cur>> \o SplitFrom(s, sep, i + 1, <<>>)
    ELSE SplitFrom(s, sep, i + 1, Append(cur, s[i]))

Split(s, sep) == SplitFrom(s, sep, 1, <<>>)

\* String.prototype.trim()
RECURSIVE TrimLeft(_)
TrimLeft(s) == IF s # <<>> /\ Head(s) = " " THEN TrimLeft(Tail(s)) ELSE s

RECURSIVE TrimRight(_)
TrimRight(s) ==
    IF s # <<>> /\ s[Len(s)] = " " THEN TrimRight(SubSeq(s, 1, Len(s) - 1)) ELSE s

Trim(s) == TrimRight(TrimLeft(s))

\* Array.prototype.join(sep)
RECURSIVE Join(_, _)
Join(list, sep) ==
    IF list = <<>> THEN <<>>
    ELSE IF Len(list) = 1 THEN list[1]
    ELSE list[1] \o <<sep>> \o Join(Tail(list), sep)

\* tags.split(",").map(tag => tag.trim())
TagList(tags) == [i \in DOMAIN Split(tags, ",") |-> Trim(Split(tags, ",")[i])]

\* !x for a request parameter: undefined and the empty string are falsy
Falsy(x) == x.type = "undefined" \/ (x.type = "string" /\ Len(x.v) = 0)

\* ------------------------------------------------------------ JSON
\* a serialization that writes every date as null
DateToJSON_null(d) == Null

\* JSON.stringify of a Date gives its ISO string; null stays null
DateToJSON(d) == IF d.k = "date" THEN IsoString(d.t) ELSE d

\* a serialization that leaves the tags of the row out
RowToJSON_untagged(row) ==
    [row EXCEPT !.createdAt = DateToJSON(@),
                !.updatedAt = DateToJSON(@),
                !.deletedAt = DateToJSON(@),
                !.tags = <<>>]

RowToJSON(row) ==
    [row EXCEPT !.createdAt = DateToJSON(@),
                !.updatedAt = DateToJSON(@),
                !.deletedAt = DateToJSON(@)]

\* A JS value that is serialized: null, one row, an array of rows, or an
\* object { error: message }.
NullResult == [t |-> "null", v |-> <<>>]
ObjResult(row) == [t |-> "obj", v |-> <<row>>]
ArrResult(rows) == [t |-> "arr", v |-> rows]
ErrorObj(msg) == [t |-> "error", v |-> <<msg>>]
\* an object { items, ...meta }: an array of rows and the other fields
ListingResult(rows, meta) == [t |-> "listing", v |-> <<rows, meta>>]

\* an object { message, video: row }
MessageResult(msg, row) == [t |-> "message", v |-> <<row, msg>>]
\* an object { status, error: message }
StatusResult(status, msg) == [t |-> "status", v |-> <<status, msg>>]

\* JSON.stringify(value): a text, held as the JSON value it denotes
Stringify(x) ==
    [json |-> IF x.t \in {"obj", "arr"}
              THEN [x EXCEPT !.v = [i \in DOMAIN x.v |-> RowToJSON(x.v[i])]]
              ELSE IF x.t = "message"
              THEN [x EXCEPT !.v[1] = RowToJSON(x.v[1])]
              ELSE IF x.t = "listing"
              THEN [x EXCEPT !.v[1] = [i \in DOMAIN x.v[1] |-> RowToJSON(x.v[1][i])]]
              ELSE x]

\* JSON.parse(text): the value the text denotes (its dates are strings)
Parse(text) == text.json

\* the text no response has been written to
NoBody == [json |-> NullResult]

\* JSON.parse of the upload's tags field, a text of tokens "[", "]", ","
\* and string literals: an array of string literals parses, all else throws
IsLiteral(tok) == tok \notin {"[", "]", ","}

JsonArrayOk(text) ==
    /\ Len(text) >= 2
    /\ text[1] = "["
    /\ text[Len(text)] = "]"
    /\ \A i \in 2..(Len(text) - 1) :
          IF i % 2 = 0 THEN IsLiteral(text[i]) ELSE text[i] = ","
    /\ (Len(text) = 2 \/ Len(text) % 2 = 1)

JsonArray(text) == [i \in 1..((Len(text) - 1) \div 2) |-> <<text[2 * i]>>]

\* ------------------------------------------------------------ Record Store
\* a finite map extended or overwritten at one key
Put(f, k, e) == [x \in (DOMAIN f) \cup {k} |-> IF x = k THEN e ELSE f[x]]

\* the sequences that list every member of a finite set once
Orderings(S) ==
    {q \in [1..Cardinality(S) -> S] : \A i, j \in DOMAIN q : q[i] = q[j] => i = j}

\* a findUnique that leaves tombstoned rows out
FindUnique_live(tbl, id) ==
    IF id \in DOMAIN tbl /\ tbl[id].deletedAt = Null
    THEN ObjResult(tbl[id]) ELSE NullResult

\* prisma.photo.findUnique({ where: { id } })
FindUnique(tbl, id) == IF id \in DOMAIN tbl THEN ObjResult(tbl[id]) ELSE NullResult

\* a match on the first tag of the row alone
HasSome_first(row, tagList) ==
    row.tags # <<>> /\ \E j \in DOMAIN tagList : row.tags[1] = tagList[j]

\* where: { tags: { hasSome: tagList } }
HasSome(row, tagList) ==
    \E i \in DOMAIN row.tags : \E j \in DOMAIN tagList : row.tags[i] = tagList[j]

\* the ids of the rows prisma.photo.findMany({ where }) returns
FindManyIds(tbl, tagList) == {id \in DOMAIN tbl : HasSome(tbl[id], tagList)}

\* a count of the rows that are not tombstoned
Count_live(tbl) == Cardinality({id \in DOMAIN tbl : tbl[id].deletedAt = Null})

\* prisma.photo.count()
Count(tbl) == Cardinality(DOMAIN tbl)

\* @default(cuid()): an id no row has
Cuid(tbl) == CuidSeq[1 + Cardinality({i \in DOMAIN CuidSeq : CuidSeq[i] \in DOMAIN tbl})]

\* the row prisma.photo.create({ data: { url, tags, id } }) inserts
NewRow(id, filename, tags, t) ==
    [id |-> id, url |-> <<"/uploads/">> \o filename, tags |-> tags, title |-> <<>>,
     createdAt |-> Date(t), updatedAt |-> Date(t), deletedAt |-> Null]

\* an update that restores a row that is tombstoned
SoftDelete_toggle(tbl, id, t) ==
    [tbl EXCEPT ![id].deletedAt = IF @ = Null THEN Date(t) ELSE Null,
                ![id].updatedAt = Date(t)]

\* an update that refreshes updatedAt and writes no deletedAt
SoftDelete_touch(tbl, id, t) == [tbl EXCEPT ![id].updatedAt = Date(t)]

\* an update that also clears the tags of the row
SoftDelete_untag(tbl, id, t) ==
    [tbl EXCEPT ![id].deletedAt = Date(t), ![id].updatedAt = Date(t), ![id].tags = <<>>]

\* prisma.photo.update({ where: { id }, data: { deletedAt: new Date() } })
SoftDelete(tbl, id, t) ==
    [tbl EXCEPT ![id].deletedAt = Date(t), ![id].updatedAt = Date(t)]

\* ------------------------------------------------------------ Cache Layer
\* redisClient.setEx(key, ttl, value)
SetEx(c, key, ttl, value, t) ==
    Put(c, key, [value |-> value, writtenAt |-> t, expiresAt |-> t + ttl])

\* `if (data)` after redisClient.get(key): the key holds a value
CacheHit(c, key) == key \in DOMAIN c

\* Redis drops an entry once its TTL has run out
Expire(c, t) == [k \in {x \in DOMAIN c : c[x].expiresAt > t} |-> c[k]]

\* ------------------------------------------------------------ cache keys
\* a by-id key without the kind
IdKey_noKind(id) == <<"id:">> \o id

\* `photos:id:${id}`
IdKey(id) == <<"photos:id:">> \o id

\* a tag-list key under the prefix of the by-id keys
TagsKey_asId(tagList) == <<"photos:id:">> \o Join(tagList, ",")

\* `photos:tags:${tagList.join(",")}`
TagsKey(tagList) == <<"photos:tags:">> \o Join(tagList, ",")

\* `videos:tags:${tagList.join(",")}`
VideoTagsKey(tagList) == <<"videos:tags:">> \o Join(tagList, ",")

\* the characters of a template literal's fixed part; a character is itself
TemplateChars(tok) ==
    CASE tok = "photos:id:" -> <<"p", "h", "o", "t", "o", "s", ":", "i", "d", ":">>
      [] tok = "photos:tags:" ->
             <<"p", "h", "o", "t", "o", "s", ":", "t", "a", "g", "s", ":">>
      [] tok = "videos:tags:" ->
             <<"v", "i", "d", "e", "o", "s", ":", "t", "a", "g", "s", ":">>
      [] tok = "id:" -> <<"i", "d", ":">>
      [] OTHER -> <<tok>>

\* the string Redis receives as the key: the characters of the template
\* literal with the id or the joined tags in place
RECURSIVE KeyText(_)
KeyText(key) ==
    IF key = <<>> THEN <<>> ELSE TemplateChars(Head(key)) \o KeyText(Tail(key))

\* ------------------------------------------------------------ validation
\* a check of the type alone
InvalidId_typeOnly(id) == id.type # "string"

\* !id || typeof id !== "string"
InvalidId(id) == Falsy(id) \/ id.type # "string"

\* !tags || typeof tags !== "string"
InvalidTags(tags) == Falsy(tags) \/ tags.type # "string"

\* a check of null alone
NotFound_nullOnly(result) == result.t = "null"

\* a check of empty arrays alone
NotFound_arraysOnly(result) == result.t = "arr" /\ Len(result.v) = 0

\* !result || (Array.isArray(result) && result.length === 0)
NotFound(result) == result.t = "null" \/ (result.t = "arr" /\ Len(result.v) = 0)

\* ------------------------------------------------------------ requests
\* the values of the :id path parameter
IdParams == {Str(<<"x", "1">>), Str(<<>>), Undefined}

\* the values of the ?tags= query parameter
TagsParams ==
    {Str(<<"a", ",", "b">>), Str(<<"b", ",", " ", "a">>),
     Str(<<>>), Undefined, Arr(<< <<"a">>, <<"b">> >>)}

\* the upload's multipart fields: req.file.filename, tags and imageId
FileParams == {Str(<<"f">>), Undefined}
TagsTexts == {Str(<<"[", "a", "]">>), Str(<<"[", "a">>), Undefined}
ImageIdParams == {Undefined} \cup {Str(id) : id \in ClientIds}

\* a handler that holds no request
Idle ==
    [op |-> "none", pc |-> "idle", id |-> Undefined, tags |-> Undefined,
     tag |-> Undefined, page |-> Undefined, limit |-> Undefined,
     method |-> "", path |-> "",
     file |-> Undefined, key |-> <<>>, result |-> NullResult, seen |-> {},
     status |-> 0, body |-> NoBody, src |-> "none", err |-> "none",
     nGet |-> 0, nSet |-> 0, nQuery |-> 0, nRes |-> 0, age |-> 0,
     atStart |-> "none"]

\* no handler has an answer still to hand over
Running == \A r \in Reqs : req[r].pc # "done"

\* the handler that takes the next request: the first one that holds none
\* (handlers are interchangeable)
Free(r) ==
    /\ Running
    /\ req[r].pc = "idle"
    /\ \A o \in Reqs : req[o].pc = "idle" => ~(o < r)

\* handler r is suspended at the await named pc
At(r, pc) == Running /\ req[r].pc = pc

\* what the store holds under a string id when a request arrives
RowState(tbl, id) ==
    IF id.type # "string" \/ id.v \notin DOMAIN tbl THEN "absent"
    ELSE IF tbl[id.v].deletedAt = Null THEN "live" ELSE "tomb"

\* res.status(status).json(value): the handler has answered
Respond(q, status, value, src) ==
    [q EXCEPT !.pc = "done", !.status = status, !.body = Stringify(value),
              !.src = src, !.nRes = @ + 1]

\* an error handler whose body also carries the cause of the error
ErrorHandler_detail(q, msg, cause) ==
    [Respond(q, 500, [t |-> "error", v |-> <<msg, cause>>], "none") EXCEPT !.err = cause]

\* an error forwarded by fetchAndCache and once more by the handler's catch
ErrorHandler_twice(q, msg, cause) ==
    [Respond(q, 500, ErrorObj(msg), "none") EXCEPT !.err = cause, !.nRes = @ + 1]

\* next(err) reaching errorHandler: err.status || 500, { error: err.message }
ErrorHandler(q, msg, cause) ==
    [Respond(q, 500, ErrorObj(msg), "none") EXCEPT !.err = cause]

Init ==
    /\ photos = <<>>
    /\ videos = <<>>
    /\ cache = <<>>
    /\ now = 0
    /\ req = [r \in Reqs |-> Idle]

\* ----------------------------------------------- fetchAndCache
\* a hit that sends the cached text without JSON.parse
AfterGet_raw(q, c, t) ==
    IF CacheHit(c, q.key)
    THEN [Respond(q, 200, [t |-> "text", v |-> <<c[q.key].value>>], "cache")
             EXCEPT !.nGet = @ + 1, !.age = t - c[q.key].writtenAt]
    ELSE [q EXCEPT !.pc = "query", !.nGet = @ + 1]

\* the handler's state after `await redisClient.get(redisKey)` returned
AfterGet(q, c, t) ==
    IF CacheHit(c, q.key)
    THEN [Respond(q, 200, Parse(c[q.key].value), "cache")
             EXCEPT !.nGet = @ + 1, !.age = t - c[q.key].writtenAt]
    ELSE [q EXCEPT !.pc = "query", !.nGet = @ + 1]

\* Redis after that get
CacheAfterGet(q, c, t) == c

\* await redisClient.get(redisKey), then `if (data) return res.json(...)`,
\* for the request q that handler r has just taken
FetchGet(r, q) ==
    /\ \E throws \in BOOLEAN :
          req' = [req EXCEPT ![r] =
              IF throws
              THEN [ErrorHandler(q, "redis get failed", "cache") EXCEPT !.nGet = @ + 1]
              ELSE AfterGet(q, cache, now)]
    /\ cache' = CacheAfterGet(q, cache, now)

\* ----------------------------------------------- GET /v1/photos/:id
\* validation, the cache key, and fetchAndCache up to the answer of Redis
GetPhotoById(r, id) ==
    /\ Free(r)
    /\ LET q == [Idle EXCEPT !.op = "getById", !.id = id,
                             !.atStart = RowState(photos, id)]
       IN IF InvalidId(id)
          THEN /\ req' = [req EXCEPT ![r] =
                      Respond(q, 400, ErrorObj("Invalid photo ID"), "none")]
               /\ UNCHANGED cache
          ELSE FetchGet(r, [q EXCEPT !.key = IdKey(id.v)])
    /\ UNCHANGED <<photos, videos, now>>

\* ----------------------------------------------- GET /v1/photos?tags=
\* validation, the cache key, and fetchAndCache up to the answer of Redis
ListPhotosByTags(r, tags) ==
    /\ Free(r)
    /\ LET q == [Idle EXCEPT !.op = "listByTags", !.tags = tags]
       IN IF InvalidTags(tags)
          THEN /\ req' = [req EXCEPT ![r] =
                      Respond(q, 400, ErrorObj("Invalid tags"), "none")]
               /\ UNCHANGED cache
          ELSE FetchGet(r, [q EXCEPT !.key = TagsKey(TagList(tags.v))])
    /\ UNCHANGED <<photos, videos, now>>

\* the handler's state after the store answered the query with `result`
AfterQuery(q, result) ==
    IF NotFound(result)
    THEN [Respond(q, 404, ErrorObj("photo not found"), "none") EXCEPT !.nQuery = @ + 1]
    ELSE [q EXCEPT !.pc = "set", !.result = result, !.nQuery = @ + 1]

\* the results prisma[modelName][prismaQuery.method](prismaQuery.options) may
\* give: findUnique by id, or findMany in any row order (the query has no orderBy)
QueryResults(q, tbl) ==
    IF q.op = "getById"
    THEN {FindUnique(tbl, q.id.v)}
    ELSE {ArrResult([i \in DOMAIN o |-> tbl[o[i]]]) :
             o \in Orderings(FindManyIds(tbl, TagList(q.tags.v)))}

\* await prisma[modelName][method](options), then the not-found check
FetchQuery(r) ==
    /\ At(r, "query")
    /\ \/ req' = [req EXCEPT ![r] =
              [ErrorHandler(req[r], "store query failed", "store") EXCEPT !.nQuery = @ + 1]]
       \/ \E result \in QueryResults(req[r], photos) :
              req' = [req EXCEPT ![r] = AfterQuery(req[r], result)]
    /\ UNCHANGED <<photos, videos, cache, now>>

\* await redisClient.setEx(redisKey, 3600, JSON.stringify(result)); res.json(result)
FetchSet(r) ==
    /\ At(r, "set")
    /\ \/ /\ req' = [req EXCEPT ![r] = ErrorHandler(req[r], "redis setEx failed", "cache")]
          /\ UNCHANGED cache
       \/ /\ cache' = SetEx(cache, req[r].key, TTL, Stringify(req[r].result), now)
          /\ req' = [req EXCEPT ![r] =
                 [Respond(req[r], 200, req[r].result, "store") EXCEPT !.nSet = @ + 1]]
    /\ UNCHANGED <<photos, videos, now>>

\* ----------------------------------------------- POST /v1/photos/upload
\* uploads in flight past their validation
Uploading == {r \in Reqs : req[r].op = "upload" /\ req[r].pc # "done"}

\* a capacity check that admits an upload into a full table
AfterCount_gt(q, photoCount) ==
    IF photoCount > PhotoLimit
    THEN [Respond(q, 400, ErrorObj("Photo storage limit reached (50)"), "none")
             EXCEPT !.nQuery = @ + 1]
    ELSE [q EXCEPT !.pc = IF Falsy(q.id) THEN "create" ELSE "find", !.nQuery = @ + 1]

\* the handler's state after `await prisma.photo.count()` returned photoCount
AfterCount(q, photoCount) ==
    IF photoCount >= PhotoLimit
    THEN [Respond(q, 400, ErrorObj("Photo storage limit reached (50)"), "none")
             EXCEPT !.nQuery = @ + 1]
    ELSE [q EXCEPT !.pc = IF Falsy(q.id) THEN "create" ELSE "find", !.nQuery = @ + 1]

\* validation of file and tags, then await prisma.photo.count() and the
\* capacity check
UploadPhoto(r, file, tags, imageId, rows) ==
    /\ Free(r)
    /\ Count(photos) + Cardinality(Uploading) < rows
    /\ LET q == [Idle EXCEPT !.op = "upload", !.file = file, !.tags = tags,
                             !.id = imageId]
       IN IF Falsy(file)
          THEN req' = [req EXCEPT ![r] =
                   Respond(q, 400, ErrorObj("Photo file is required"), "none")]
          ELSE IF Falsy(tags)
          THEN req' = [req EXCEPT ![r] =
                   Respond(q, 400, ErrorObj("Tags are required"), "none")]
          ELSE \/ req' = [req EXCEPT ![r] =
                      [ErrorHandler(q, "store query failed", "store")
                          EXCEPT !.nQuery = @ + 1]]
               \/ req' = [req EXCEPT ![r] = AfterCount(q, Count(photos))]
    /\ UNCHANGED <<photos, videos, cache, now>>

\* an existence check that takes the id of a tombstoned row for unused
AfterFind_live(q, existingPhoto) ==
    IF existingPhoto.t # "null" /\ existingPhoto.v[1].deletedAt = Null
    THEN [Respond(q, 400, ErrorObj("Photo ID already exists"), "none")
             EXCEPT !.nQuery = @ + 1]
    ELSE [q EXCEPT !.pc = "create", !.nQuery = @ + 1]

\* the handler's state after `await prisma.photo.findUnique(...)` returned
AfterFind(q, existingPhoto) ==
    IF existingPhoto.t # "null"
    THEN [Respond(q, 400, ErrorObj("Photo ID already exists"), "none")
             EXCEPT !.nQuery = @ + 1]
    ELSE [q EXCEPT !.pc = "create", !.nQuery = @ + 1]

UploadFind(r) ==
    /\ At(r, "find")
    /\ \/ req' = [req EXCEPT ![r] =
              [ErrorHandler(req[r], "store query failed", "store") EXCEPT !.nQuery = @ + 1]]
       \/ req' = [req EXCEPT ![r] = AfterFind(req[r], FindUnique(photos, req[r].id.v))]
    /\ UNCHANGED <<photos, videos, cache, now>>

\* data.id: the imageId of the request, or the store's default
CreateId(q, tbl) == IF q.id.type = "string" THEN q.id.v ELSE Cuid(tbl)

\* JSON.parse(tags), then await prisma.photo.create(...); res.status(201)
UploadCreate(r) ==
    /\ At(r, "create")
    /\ LET q == req[r]
           id == CreateId(q, photos)
       IN IF ~JsonArrayOk(q.tags.v)
          THEN /\ req' = [req EXCEPT ![r] = ErrorHandler(q, "Unexpected token", "parse")]
               /\ UNCHANGED photos
          ELSE \/ /\ req' = [req EXCEPT ![r] =
                         [ErrorHandler(q, "store query failed", "store")
                             EXCEPT !.nQuery = @ + 1]]
                  /\ UNCHANGED photos
               \/ IF id \in DOMAIN photos
                  THEN /\ req' = [req EXCEPT ![r] =
                              [ErrorHandler(q, "Unique constraint failed", "unique")
                                  EXCEPT !.nQuery = @ + 1]]
                       /\ UNCHANGED photos
                  ELSE LET row == NewRow(id, q.file.v, JsonArray(q.tags.v), now)
                       IN /\ photos' = Put(photos, id, row)
                          /\ req' = [req EXCEPT ![r] =
                                 [Respond(q, 201, ObjResult(row), "store")
                                     EXCEPT !.nQuery = @ + 1]]
    /\ UNCHANGED <<videos, cache, now>>

\* ----------------------------------------------- POST /v1/videos/upload
\* video uploads in flight past their validation
VideoUploading == {r \in Reqs : req[r].op = "uploadVideo" /\ req[r].pc # "done"}

\* a capacity check that admits a video into a full table
AfterVideoCount_gt(q, videoCount) ==
    IF videoCount > VideoLimit
    THEN [Respond(q, 400, ErrorObj("Video storage limit reached (20)"), "none")
             EXCEPT !.nQuery = @ + 1]
    ELSE [q EXCEPT !.pc = "createVideo", !.nQuery = @ + 1]

\* the handler's state after `await prisma.video.count()` returned videoCount
AfterVideoCount(q, videoCount) ==
    IF videoCount >= VideoLimit
    THEN [Respond(q, 400, ErrorObj("Video storage limit reached (20)"), "none")
             EXCEPT !.nQuery = @ + 1]
    ELSE [q EXCEPT !.pc = "createVideo", !.nQuery = @ + 1]

\* validation of file and tags, then await prisma.video.count() and the
\* capacity check
UploadVideo(r, file, tags, rows) ==
    /\ Free(r)
    /\ Count(videos) + Cardinality(VideoUploading) < rows
    /\ LET q == [Idle EXCEPT !.op = "uploadVideo", !.file = file, !.tags = tags]
       IN IF Falsy(file)
          THEN req' = [req EXCEPT ![r] =
                   Respond(q, 400, ErrorObj("Video file is required"), "none")]
          ELSE IF Falsy(tags)
          THEN req' = [req EXCEPT ![r] =
                   Respond(q, 400, ErrorObj("Tags are required"), "none")]
          ELSE \/ req' = [req EXCEPT ![r] =
                      [ErrorHandler(q, "store query failed", "store")
                          EXCEPT !.nQuery = @ + 1]]
               \/ req' = [req EXCEPT ![r] = AfterVideoCount(q, Count(videos))]
    /\ UNCHANGED <<photos, videos, cache, now>>

\* JSON.parse(tags), then await prisma.video.create(...); res.status(201)
CreateVideo(r) ==
    /\ At(r, "createVideo")
    /\ LET q == req[r]
           id == Cuid(videos)
       IN IF ~JsonArrayOk(q.tags.v)
          THEN /\ req' = [req EXCEPT ![r] = ErrorHandler(q, "Unexpected token", "parse")]
               /\ UNCHANGED videos
          ELSE \/ /\ req' = [req EXCEPT ![r] =
                         [ErrorHandler(q, "store query failed", "store")
                             EXCEPT !.nQuery = @ + 1]]
                  /\ UNCHANGED videos
               \/ LET row == NewRow(id, q.file.v, JsonArray(q.tags.v), now)
                  IN /\ videos' = Put(videos, id, row)
                     /\ req' = [req EXCEPT ![r] =
                            [Respond(q, 201, ObjResult(row), "store")
                                EXCEPT !.nQuery = @ + 1]]
    /\ UNCHANGED <<photos, cache, now>>

\* ----------------------------------------------- GET /v1/videos
\* the handlers registered for GET /v1/videos, in the order of their
\* registration: the unfiltered listing, the tag listing, the paged listing
VideoRoutes == <<"listAllVideos", "listVideosByTags", "listVideosPaged">>

\* Express runs the handlers registered for a method and path in the order
\* of registration, the next one only when a handler calls next() without an
\* error; the first one here ends every request (res.json, or next(err))
Dispatch(routes) == Head(routes)

\* the ?tags=, ?tag=, ?page= and ?limit= a client may send
VideoTagsParams == {Undefined, Str(<<"b">>)}
TagParams == {Undefined, Str(<<"a">>)}
PageParams == {Undefined, Str(<<"2">>)}
LimitParams == {Undefined, Str(<<"1">>), Str(<<"0">>)}

\* await prisma.video.findMany(); res.json({ videos, totalVideos: videos.length })
ListAllVideos(r, tags, tag, page, limit) ==
    /\ Free(r)
    /\ LET q == [Idle EXCEPT !.op = Dispatch(VideoRoutes), !.tags = tags,
                             !.tag = tag, !.page = page, !.limit = limit]
       IN /\ q.op = "listAllVideos"
          /\ \/ req' = [req EXCEPT ![r] =
                    [ErrorHandler(q, "store query failed", "store") EXCEPT !.nQuery = @ + 1]]
             \/ \E o \in Orderings(DOMAIN videos) :
                    LET rows == [i \in DOMAIN o |-> videos[o[i]]]
                    IN req' = [req EXCEPT ![r] =
                           [Respond(q, 200,
                                    ListingResult(rows, [totalVideos |-> Len(rows)]),
                                    "store")
                               EXCEPT !.nQuery = @ + 1]]
    /\ UNCHANGED <<photos, videos, cache, now>>

\* ----------------------------------------------- GET /v1/photos, paged
\* (the revision of the server in src/unnamed/part_001, where this handler
\* is the one registered for GET /v1/photos)
\* parseInt(s, 10) of a decimal numeral
DigitValue(c) == CHOOSE d \in 0..9 : DigitChars[d + 1] = c

RECURSIVE ParseInt(_)
ParseInt(s) ==
    IF Len(s) = 1 THEN DigitValue(s[1])
    ELSE 10 * ParseInt(SubSeq(s, 1, Len(s) - 1)) + DigitValue(s[Len(s)])

\* const { page = 1, limit = 10, tag } = req.query, as numbers
PageOf(page) == IF page.type = "undefined" THEN 1 ELSE ParseInt(page.v)
LimitOf(limit) == IF limit.type = "undefined" THEN 10 ELSE ParseInt(limit.v)

\* where: tag ? { tags: { has: tag } } : {}
Has(row, tag) == \E i \in DOMAIN row.tags : row.tags[i] = tag
WhereIds(tbl, tag) ==
    IF Falsy(tag) THEN DOMAIN tbl ELSE {id \in DOMAIN tbl : Has(tbl[id], tag.v)}

\* the rows findMany({ skip, take }) keeps of the rows that match
SkipTake(rows, skip, take) ==
    [i \in 1..(IF Len(rows) - skip < take
               THEN (IF Len(rows) > skip THEN Len(rows) - skip ELSE 0)
               ELSE take) |-> rows[skip + i]]

\* Math.ceil(n / d) as res.json writes it: Infinity and NaN become null
CeilDiv(n, d) == IF d = 0 THEN Null ELSE (n + d - 1) \div d

\* await prisma.photo.count({ where }): the rows that match now
PagedTotal(q, tbl) == Cardinality(WhereIds(tbl, q.tag))

\* offset and where, then await prisma.photo.findMany({ where, skip, take });
\* `seen` keeps the ids that matched when the store ran this query
ListPhotosPaged(r, page, limit, tag) ==
    /\ Free(r)
    /\ LET q == [Idle EXCEPT !.op = "listPhotosPaged", !.page = page,
                             !.limit = limit, !.tag = tag]
           offset == (PageOf(page) - 1) * LimitOf(limit)
       IN \/ req' = [req EXCEPT ![r] =
                 [ErrorHandler(q, "store query failed", "store") EXCEPT !.nQuery = @ + 1]]
          \/ \E o \in Orderings(WhereIds(photos, tag)) :
                 LET rows == [i \in DOMAIN o |-> photos[o[i]]]
                 IN req' = [req EXCEPT ![r] =
                        [q EXCEPT !.pc = "count", !.nQuery = @ + 1,
                                  !.seen = WhereIds(photos, tag),
                                  !.result = ArrResult(SkipTake(rows, offset, LimitOf(limit)))]]
    /\ UNCHANGED <<photos, videos, cache, now>>

\* await prisma.photo.count({ where }), totalPages, then
\* res.json({ photos, totalPhotos, totalPages, currentPage })
PagedCount(r) ==
    /\ At(r, "count")
    /\ LET q == req[r]
           totalPhotos == PagedTotal(q, photos)
       IN \/ req' = [req EXCEPT ![r] =
                 [ErrorHandler(q, "store query failed", "store") EXCEPT !.nQuery = @ + 1]]
          \/ req' = [req EXCEPT ![r] =
                 [Respond(q, 200,
                          ListingResult(q.result.v,
                              [totalPhotos |-> totalPhotos,
                               totalPages |-> CeilDiv(totalPhotos, LimitOf(q.limit)),
                               currentPage |-> PageOf(q.page)]),
                          "store")
                     EXCEPT !.nQuery = @ + 1]]
    /\ UNCHANGED <<photos, videos, cache, now>>

\* ----------------------------------------------- DELETE /v1/photos/:id
\* a soft-delete that drops the by-id entry of the row
CacheAfterDelete_evict(c, id) ==
    [k \in (DOMAIN c) \ {<<"photos:id:">> \o id} |-> c[k]]

\* Redis after the soft-delete of `id` was written to the store
CacheAfterDelete(c, id) == c

\* validation, then await prisma.photo.update(...); res.json(deletedPhoto),
\* or P2025 -> 404
DeletePhoto(r, idParam) ==
    /\ Free(r)
    /\ LET q == [Idle EXCEPT !.op = "delete", !.id = idParam]
           id == idParam.v
       IN IF InvalidId(idParam)
          THEN /\ req' = [req EXCEPT ![r] =
                      Respond(q, 400, ErrorObj("Invalid photo ID"), "none")]
               /\ UNCHANGED <<photos, cache>>
          ELSE
          \/ /\ req' = [req EXCEPT ![r] =
                    [ErrorHandler(q, "store query failed", "store") EXCEPT !.nQuery = @ + 1]]
             /\ UNCHANGED <<photos, cache>>
          \/ IF id \notin DOMAIN photos
             THEN /\ req' = [req EXCEPT ![r] =
                         [Respond(q, 404, ErrorObj("Photo not found"), "none")
                             EXCEPT !.nQuery = @ + 1, !.err = "P2025"]]
                  /\ UNCHANGED <<photos, cache>>
             ELSE /\ photos' = SoftDelete(photos, id, now)
                  /\ cache' = CacheAfterDelete(cache, id)
                  /\ req' = [req EXCEPT ![r] =
                         [Respond(q, 200, ObjResult(photos'[id]), "store")
                             EXCEPT !.nQuery = @ + 1]]
    /\ UNCHANGED <<videos, now>>

\* ----------------------------------------------- DELETE /v1/videos/:id
\* the handlers registered for DELETE /v1/videos/:id, in the order of their
\* registration: the one that answers { message, video } and the one that
\* answers the row; the first one ends every request
VideoDeleteRoutes == <<"deleteVideo", "softDeleteVideo">>

\* validation, then await prisma.video.update(...);
\* res.json({ message, video: deletedVideo }), or P2025 -> 404
DeleteVideo(r, idParam) ==
    /\ Free(r)
    /\ LET q == [Idle EXCEPT !.op = Dispatch(VideoDeleteRoutes), !.id = idParam]
           id == idParam.v
       IN /\ q.op = "deleteVideo"
          /\ IF InvalidId(idParam)
             THEN /\ req' = [req EXCEPT ![r] =
                         Respond(q, 400, ErrorObj("Invalid video ID"), "none")]
                  /\ UNCHANGED <<videos, cache>>
             ELSE
             \/ /\ req' = [req EXCEPT ![r] =
                       [ErrorHandler(q, "store query failed", "store")
                           EXCEPT !.nQuery = @ + 1]]
                /\ UNCHANGED <<videos, cache>>
             \/ IF id \notin DOMAIN videos
                THEN /\ req' = [req EXCEPT ![r] =
                            [Respond(q, 404, ErrorObj("Video not found"), "none")
                                EXCEPT !.nQuery = @ + 1, !.err = "P2025"]]
                     /\ UNCHANGED <<videos, cache>>
                ELSE /\ videos' = SoftDelete(videos, id, now)
                     /\ cache' = cache
                     /\ req' = [req EXCEPT ![r] =
                            [Respond(q, 200,
                                     MessageResult("Video deleted successfully", videos'[id]),
                                     "store")
                                EXCEPT !.nQuery = @ + 1]]
    /\ UNCHANGED <<photos, now>>

\* ----------------------------------------------- GET /health
\* await prisma.$queryRaw`SELECT 1` and await checkDiskSpace(...), then
\* res.status(200).json({ status: "healthy", ... }); an error of either is
\* caught here: res.status(500).json({ status: "unhealthy", error })
Health(r) ==
    /\ Free(r)
    /\ LET q == [Idle EXCEPT !.op = "health", !.method = "GET", !.path = "/health"]
       IN \/ req' = [req EXCEPT ![r] =
                 [Respond(q, 500, StatusResult("unhealthy", "store query failed"), "none")
                     EXCEPT !.nQuery = @ + 1, !.err = "store"]]
          \/ req' = [req EXCEPT ![r] =
                 [Respond(q, 500, StatusResult("unhealthy", "disk check failed"), "none")
                     EXCEPT !.nQuery = @ + 1, !.err = "disk"]]
          \/ req' = [req EXCEPT ![r] =
                 [Respond(q, 200, StatusResult("healthy", ""), "none")
                     EXCEPT !.nQuery = @ + 1]]
    /\ UNCHANGED <<photos, videos, cache, now>>

\* ----------------------------------------------- unmatched routes
\* the method and path pattern of every route server.js registers
Registered ==
    {<<"GET", "/health">>, <<"GET", "/v1/photos/:id">>, <<"GET", "/v1/photos">>,
     <<"GET", "/v1/videos">>, <<"POST", "/v1/photos/upload">>,
     <<"DELETE", "/v1/videos/:id">>, <<"DELETE", "/v1/photos/:id">>,
     <<"POST", "/v1/videos/upload">>}

\* requests a client may send: by-id lookups of both kinds and an update
Requests ==
    {<<"GET", "/v1/photos/:id">>, <<"GET", "/v1/videos/:id">>, <<"PUT", "/v1/photos/:id">>}

\* the ids of videos a client may look up: the first the store generates
VideoIdParams == {Str(CuidSeq[1]), Str(<<"x", "1">>)}

\* app.use((req, res, next) => res.status(404).json({ error: "Route not found" })):
\* the middleware a request reaches when no registered route matched it
RouteNotFound(r, method, path, id) ==
    /\ Free(r)
    /\ <<method, path>> \notin Registered
    /\ req' = [req EXCEPT ![r] =
           Respond([Idle EXCEPT !.op = "routeNotFound", !.method = method,
                                !.path = path, !.id = id],
                   404, ErrorObj("Route not found"), "none")]
    /\ UNCHANGED <<photos, videos, cache, now>>

\* ----------------------------------------------- end of a request
\* the response has been sent and the handler returned: the handler holds
\* no request any more
Finish(r) ==
    /\ req[r].pc = "done"
    /\ req' = [req EXCEPT ![r] = Idle]
    /\ UNCHANGED <<photos, videos, cache, now>>

\* ----------------------------------------------- time
\* the clock advances; Redis drops the entries whose TTL has run out
Tick(step, horizon) ==
    /\ Running
    /\ now + step <= horizon
    /\ now' = now + step
    /\ cache' = Expire(cache, now')
    /\ UNCHANGED <<photos, videos, req>>

\* the steps of the handlers, over the given request parameters and clock
\* (handlers: the handlers that take requests; rows: the model admits an
\* upload while the rows stored and being uploaded are fewer than this)
NextOver(handlers, ids, tagsParams, files, tagsTexts, imageIds, rows, step, horizon) ==
    \/ \E r \in handlers : \E id \in ids : GetPhotoById(r, id)
    \/ \E r \in handlers : \E tags \in tagsParams : ListPhotosByTags(r, tags)
    \/ \E r \in handlers : FetchQuery(r)
    \/ \E r \in handlers : FetchSet(r)
    \/ \E r \in handlers : \E file \in files : \E tags \in tagsTexts :
          \E imageId \in imageIds : UploadPhoto(r, file, tags, imageId, rows)
    \/ \E r \in handlers : UploadFind(r)
    \/ \E r \in handlers : UploadCreate(r)
    \/ \E r \in handlers : \E id \in ids : DeletePhoto(r, id)
    \/ \E r \in handlers : Finish(r)
    \/ Tick(step, horizon)

Next ==
    NextOver({1, 2}, IdParams, TagsParams, FileParams, TagsTexts, ImageIdParams,
             MaxRows, TickStep, MaxTime)

Spec == Init /\ [][Next]_vars

\* the same handlers on well-formed requests about one photo, over a clock
\* fine enough to serve an entry part-way through its TTL and after it
NextTtl ==
    NextOver({1, 2}, {Str(<<"x", "1">>)}, {Str(<<"a", ",", "b">>)}, {Str(<<"f">>)},
             {Str(<<"[", "a", "]">>)}, ImageIdParams, MaxRows, FineStep, FineMax)

SpecTtl == Init /\ [][NextTtl]_vars

\* the photo handlers on requests that arrive one at a time: lookups,
\* listings by the tag "b", uploads with and without imageId, soft-deletes
NextSeq ==
    NextOver({1}, {Str(<<"x", "1">>)}, {Str(<<"b">>)}, {Str(<<"f">>)},
             {Str(<<"[", "a", ",", "b", "]">>), Str(<<"[", "a", "]">>)},
             ImageIdParams, SeqRows, TickStep, MaxTime)

SpecSeq == Init /\ [][NextSeq]_vars

\* lookups, uploads and soft-deletes of the one photo x1, from as many
\* handlers as there are, interleaved at every await
NextLookupRace ==
    \/ \E r \in Reqs : GetPhotoById(r, Str(<<"x", "1">>))
    \/ \E r \in Reqs : FetchQuery(r)
    \/ \E r \in Reqs : FetchSet(r)
    \/ \E r \in Reqs :
          UploadPhoto(r, Str(<<"f">>), Str(<<"[", "a", "]">>), Str(<<"x", "1">>), MaxRows)
    \/ \E r \in Reqs : UploadFind(r)
    \/ \E r \in Reqs : UploadCreate(r)
    \/ \E r \in Reqs : DeletePhoto(r, Str(<<"x", "1">>))
    \/ \E r \in Reqs : Finish(r)
    \/ Tick(TickStep, MaxTime)

SpecLookupRace == Init /\ [][NextLookupRace]_vars

\* the listings of both kinds and the uploads that fill the tables, on
\* requests that arrive one at a time
NextListings ==
    \/ ListPhotosByTags(1, Str(<<"b">>))
    \/ FetchQuery(1)
    \/ FetchSet(1)
    \/ \E tags \in {Str(<<"[", "a", ",", "b", "]">>), Str(<<"[", "a", "]">>)} :
          UploadPhoto(1, Str(<<"f">>), tags, Undefined, SeqRows)
    \/ UploadCreate(1)
    \/ \E tags \in {Str(<<"[", "a", ",", "b", "]">>), Str(<<"[", "a", "]">>)} :
          UploadVideo(1, Str(<<"f">>), tags, SeqRows)
    \/ CreateVideo(1)
    \/ \E tags \in VideoTagsParams : \E tag \in TagParams :
          \E page \in PageParams : \E limit \in LimitParams :
              ListAllVideos(1, tags, tag, page, limit)
    \/ Finish(1)

SpecListings == Init /\ [][NextListings]_vars

\* the paged listing of photos and the uploads that run beside it, two
\* handlers interleaved at every await
NextPaged ==
    \/ \E r \in {1, 2} : \E page \in PageParams : \E tag \in TagParams :
          \E limit \in {Undefined, Str(<<"1">>)} : ListPhotosPaged(r, page, limit, tag)
    \/ \E r \in {1, 2} : PagedCount(r)
    \/ \E r \in {1, 2} :
          \E tags \in {Str(<<"[", "a", ",", "b", "]">>), Str(<<"[", "b", "]">>)} :
              UploadPhoto(r, Str(<<"f">>), tags, Undefined, SeqRows)
    \/ \E r \in {1, 2} : UploadCreate(r)
    \/ \E r \in {1, 2} : Finish(r)

SpecPaged == Init /\ [][NextPaged]_vars

\* the upload handlers alone, for the given handlers; the capacity checks
\* are what bounds the tables
NextUploads(handlers, files, tagsTexts, imageIds) ==
    \/ \E r \in handlers : \E file \in files : \E tags \in tagsTexts :
          \E imageId \in imageIds :
              UploadPhoto(r, file, tags, imageId, PhotoLimit + Cardinality(Reqs))
    \/ \E r \in handlers : UploadFind(r)
    \/ \E r \in handlers : UploadCreate(r)
    \/ \E r \in handlers : \E file \in files : \E tags \in tagsTexts :
          UploadVideo(r, file, tags, VideoLimit + Cardinality(Reqs))
    \/ \E r \in handlers : CreateVideo(r)
    \/ \E r \in handlers : Finish(r)

\* uploads that run one at a time
NextCap == NextUploads({1}, FileParams, TagsTexts, ImageIdParams)

SpecCap == Init /\ [][NextCap]_vars

\* well-formed uploads without imageId (no existence check is made) from as
\* many handlers as there are, interleaved
NextCapRace ==
    \/ \E r \in Reqs :
          UploadPhoto(r, Str(<<"f">>), Str(<<"[", "a", "]">>), Undefined,
                      PhotoLimit + Cardinality(Reqs))
    \/ \E r \in Reqs : UploadCreate(r)
    \/ \E r \in Reqs :
          UploadVideo(r, Str(<<"f">>), Str(<<"[", "a", "]">>),
                      VideoLimit + Cardinality(Reqs))
    \/ \E r \in Reqs : CreateVideo(r)
    \/ \E r \in Reqs : Finish(r)

SpecCapRace == Init /\ [][NextCapRace]_vars

\* uploads that fill both tables to their ceilings, one request at a time,
\* beside soft-deletes of the first and the last row a full table holds
NextCapDelete ==
    \/ UploadPhoto(1, Str(<<"f">>), Str(<<"[", "a", "]">>), Undefined,
                   PhotoLimit + Cardinality(Reqs))
    \/ UploadCreate(1)
    \/ \E id \in {CuidSeq[1], CuidSeq[PhotoLimit]} : DeletePhoto(1, Str(id))
    \/ UploadVideo(1, Str(<<"f">>), Str(<<"[", "a", "]">>), VideoLimit + Cardinality(Reqs))
    \/ CreateVideo(1)
    \/ \E id \in {CuidSeq[1], CuidSeq[VideoLimit]} : DeleteVideo(1, Str(id))
    \/ Finish(1)

SpecCapDelete == Init /\ [][NextCapDelete]_vars

\* every upload, well-formed or not, of both kinds, filling the tables to
\* their ceilings, beside lookups and soft-deletes of the photo x1 and of
\* the first video, on requests that arrive one at a time
NextWrites ==
    \/ GetPhotoById(1, Str(<<"x", "1">>))
    \/ FetchQuery(1)
    \/ FetchSet(1)
    \/ \E file \in FileParams : \E tags \in TagsTexts : \E imageId \in ImageIdParams :
          UploadPhoto(1, file, tags, imageId, PhotoLimit + Cardinality(Reqs))
    \/ UploadFind(1)
    \/ UploadCreate(1)
    \/ \E file \in FileParams : \E tags \in TagsTexts :
          UploadVideo(1, file, tags, VideoLimit + Cardinality(Reqs))
    \/ CreateVideo(1)
    \/ DeletePhoto(1, Str(<<"x", "1">>))
    \/ DeleteVideo(1, Str(CuidSeq[1]))
    \/ Finish(1)

SpecWrites == Init /\ [][NextWrites]_vars

\* lookups and tag listings whose ids and tags spell parts of each other's
\* keys, beside the upload of the photo a, two handlers interleaved
KeyIdParams == {Str(<<"a">>), Str(<<"t", "a", "g", "s", ":", "a">>)}
KeyTagsParams ==
    {Str(<<"a">>), Str(<<" ", "a">>), Str(<<"a", ",", "b">>), Str(<<"i", "d", ":", "a">>)}

NextKeys ==
    \/ \E r \in {1, 2} : \E id \in KeyIdParams : GetPhotoById(r, id)
    \/ \E r \in {1, 2} : \E tags \in KeyTagsParams : ListPhotosByTags(r, tags)
    \/ \E r \in {1, 2} : FetchQuery(r)
    \/ \E r \in {1, 2} : FetchSet(r)
    \/ \E r \in {1, 2} :
          UploadPhoto(r, Str(<<"f">>), Str(<<"[", "a", "]">>), Str(<<"a">>), MaxRows)
    \/ \E r \in {1, 2} : UploadFind(r)
    \/ \E r \in {1, 2} : UploadCreate(r)
    \/ \E r \in {1, 2} : Finish(r)

SpecKeys == Init /\ [][NextKeys]_vars

\* ----------------------------------------------- a cache that may not answer
\* GET /v1/photos/:id and GET /v1/photos?tags= up to the call of
\* redisClient.get(redisKey): the handler is suspended until Redis answers
ReceiveGetById(r, id) ==
    /\ Free(r)
    /\ ~InvalidId(id)
    /\ req' = [req EXCEPT ![r] =
           [Idle EXCEPT !.op = "getById", !.id = id, !.key = IdKey(id.v),
                        !.atStart = RowState(photos, id), !.pc = "get"]]
    /\ UNCHANGED <<photos, videos, cache, now>>

ReceiveListByTags(r, tags) ==
    /\ Free(r)
    /\ ~InvalidTags(tags)
    /\ req' = [req EXCEPT ![r] =
           [Idle EXCEPT !.op = "listByTags", !.tags = tags,
                        !.key = TagsKey(TagList(tags.v)), !.pc = "get"]]
    /\ UNCHANGED <<photos, videos, cache, now>>

\* Redis answers the get, and the handler resumes
RedisGet(r) ==
    /\ At(r, "get")
    /\ FetchGet(r, req[r])
    /\ UNCHANGED <<photos, videos, now>>

\* lookups and listings of the photo x1 beside its upload, two handlers
NextOutage ==
    \/ \E r \in {1, 2} : ReceiveGetById(r, Str(<<"x", "1">>))
    \/ \E r \in {1, 2} : ReceiveListByTags(r, Str(<<"a">>))
    \/ \E r \in {1, 2} : RedisGet(r)
    \/ \E r \in {1, 2} : FetchQuery(r)
    \/ \E r \in {1, 2} : FetchSet(r)
    \/ \E r \in {1, 2} :
          UploadPhoto(r, Str(<<"f">>), Str(<<"[", "a", "]">>), Str(<<"x", "1">>), MaxRows)
    \/ \E r \in {1, 2} : UploadFind(r)
    \/ \E r \in {1, 2} : UploadCreate(r)
    \/ \E r \in {1, 2} : Finish(r)
    \/ Tick(TickStep, MaxTime)

\* the store answers every call made to it and a handler that has answered
\* returns; Redis answers a get or a setEx or never does (the client is
\* created without a timeout and no handler sets a timer), so no fairness is
\* stated for RedisGet and FetchSet
StoreAnswers ==
    \A r \in {1, 2} :
        /\ WF_vars(FetchQuery(r))
        /\ WF_vars(UploadFind(r))
        /\ WF_vars(UploadCreate(r))
        /\ WF_vars(Finish(r))

SpecOutage == Init /\ [][NextOutage]_vars /\ StoreAnswers

\* lookups, listings, uploads and soft-deletes of the photo x1 and the first
\* video, with the get of Redis as a step of its own, two handlers
NextAnswered ==
    \/ \E r \in {1, 2} : ReceiveGetById(r, Str(<<"x", "1">>))
    \/ \E r \in {1, 2} : ReceiveListByTags(r, Str(<<"a">>))
    \/ \E r \in {1, 2} : ListPhotosByTags(r, Undefined)
    \/ \E r \in {1, 2} : RedisGet(r)
    \/ \E r \in {1, 2} : FetchQuery(r)
    \/ \E r \in {1, 2} : FetchSet(r)
    \/ \E r \in {1, 2} : \E file \in FileParams :
          UploadPhoto(r, file, Str(<<"[", "a", "]">>), Str(<<"x", "1">>), MaxRows)
    \/ \E r \in {1, 2} : UploadFind(r)
    \/ \E r \in {1, 2} : UploadCreate(r)
    \/ \E r \in {1, 2} : DeletePhoto(r, Str(<<"x", "1">>))
    \/ \E r \in {1, 2} : UploadVideo(r, Str(<<"f">>), Str(<<"[", "a", "]">>), MaxRows)
    \/ \E r \in {1, 2} : CreateVideo(r)
    \/ \E r \in {1, 2} : DeleteVideo(r, Str(CuidSeq[1]))
    \/ \E r \in {1, 2} : ListAllVideos(r, Undefined, Undefined, Undefined, Undefined)
    \/ \E r \in {1, 2} : Finish(r)

\* handler r resumes at the await it is suspended at: Redis or the store has
\* answered or failed the call
Resume(r) ==
    \/ RedisGet(r)
    \/ FetchQuery(r)
    \/ FetchSet(r)
    \/ UploadFind(r)
    \/ UploadCreate(r)
    \/ CreateVideo(r)

\* Redis and the store answer or fail every call made to them, and a handler
\* that has answered returns. A suspended handler resumes only between the
\* answers of the others, so its resumption is enabled again and again
\* rather than without a break: the fairness of Resume is strong
EveryCallAnswers ==
    \A r \in {1, 2} : SF_vars(Resume(r)) /\ WF_vars(Finish(r))

SpecAnswered == Init /\ [][NextAnswered]_vars /\ EveryCallAnswers

\* every route of the server as it is registered, on well-formed requests
\* about the photo x1 and the first video, two handlers interleaved at every
\* await: lookups, uploads and soft-deletes of both kinds, the listing of
\* videos, the health check and requests that match no route
NextServed ==
    \/ \E r \in {1, 2} : GetPhotoById(r, Str(<<"x", "1">>))
    \/ \E r \in {1, 2} : FetchQuery(r)
    \/ \E r \in {1, 2} : FetchSet(r)
    \/ \E r \in {1, 2} : \E imageId \in ImageIdParams :
          UploadPhoto(r, Str(<<"f">>), Str(<<"[", "a", "]">>), imageId, SeqRows)
    \/ \E r \in {1, 2} : UploadFind(r)
    \/ \E r \in {1, 2} : UploadCreate(r)
    \/ \E r \in {1, 2} : DeletePhoto(r, Str(<<"x", "1">>))
    \/ \E r \in {1, 2} : UploadVideo(r, Str(<<"f">>), Str(<<"[", "a", "]">>), MaxRows)
    \/ \E r \in {1, 2} : CreateVideo(r)
    \/ \E r \in {1, 2} : \E id \in VideoIdParams : DeleteVideo(r, id)
    \/ \E r \in {1, 2} : ListAllVideos(r, Undefined, Undefined, Undefined, Undefined)
    \/ \E r \in {1, 2} : \E q \in Requests : \E id \in VideoIdParams :
          RouteNotFound(r, q[1], q[2], id)
    \/ \E r \in {1, 2} : Health(r)
    \/ \E r \in {1, 2} : Finish(r)
    \/ Tick(TickStep, MaxTime)

SpecServed == Init /\ [][NextServed]_vars

\* ------------------------------------------------------------ claims
\* handler r has just answered a request of kind op
Done(r, op) == req[r].pc = "done" /\ req[r].op = op

\* the one row of an answer that is a single asset
BodyRow(r) == req[r].body.json.v[1]

\* the request parameter is a non-empty string
NonEmptyString(x) == x.type = "string" /\ x.v # <<>>

\* C1: once a soft-delete of x has completed, every later getById(x) returns
\* the record with a non-null deletedAt, also when x was cached before.
C1_SoftDeleteSeenById ==
    \A r \in Reqs :
        (Done(r, "getById") /\ req[r].atStart = "tomb" /\ req[r].status = 200)
            => (req[r].body.json.t = "obj" /\ BodyRow(r).deletedAt # Null)

\* C2: a tag listing answered from the Record Store returns no item with a
\* non-null deletedAt.
C2_ListingOmitsTombstones ==
    \A r \in Reqs :
        (Done(r, "listByTags") /\ req[r].src = "store" /\ req[r].status = 200)
            => \A i \in DOMAIN req[r].body.json.v :
                   req[r].body.json.v[i].deletedAt = Null

\* C3: getById(x) of an inserted and soft-deleted x never responds 404, and
\* responds 200 with the record of x, from the cache or from the store,
\* whenever the cache and the store answer the handler's calls.
C3_TombstoneVisibleById ==
    \A r \in Reqs :
        (Done(r, "getById") /\ req[r].atStart = "tomb")
            => /\ req[r].status # 404
               /\ req[r].err = "none"
                     => /\ req[r].status = 200
                        /\ req[r].src \in {"cache", "store"}
                        /\ req[r].body.json.t = "obj"
                        /\ BodyRow(r).id = req[r].id.v

\* a getById of a tombstoned row answered 200 from the store, tombstone included
C3_Witness ==
    \E r \in Reqs :
        /\ Done(r, "getById") /\ req[r].atStart = "tomb"
        /\ req[r].status = 200 /\ req[r].src = "store"
        /\ BodyRow(r).deletedAt # Null

\* C4: when a cache get or set fails during getById or listByTags, the
\* request is still answered from the Record Store (200 with the record
\* when it exists); it does not fail because of the cache.
C4_CacheOutageBypassed ==
    \A r \in Reqs :
        (req[r].pc = "done" /\ req[r].op \in {"getById", "listByTags"}
            /\ req[r].err = "cache")
            => /\ req[r].status # 500
               /\ req[r].atStart \in {"live", "tomb"} => req[r].status = 200

\* C5: a getById of an id absent from the store responds 404 after one store
\* query and writes no cache entry; no by-id cache entry exists for an id the
\* store does not hold, so a later getById reaches the store again; and every
\* 200 answer of getById carries the record the store holds under that id.
C5_NegativeResultsNotCached ==
    /\ \A r \in Reqs :
          (Done(r, "getById") /\ NonEmptyString(req[r].id) /\ req[r].err = "none"
              /\ req[r].atStart = "absent")
              => \/ /\ req[r].status = 404
                    /\ req[r].nQuery = 1 /\ req[r].nSet = 0
                    /\ (<<"photos:id:">> \o req[r].id.v) \notin DOMAIN cache
                 \/ /\ req[r].status = 200 /\ req[r].src = "store"
                    /\ req[r].id.v \in DOMAIN photos
    /\ \A id \in ClientIds :
          (<<"photos:id:">> \o id) \in DOMAIN cache => id \in DOMAIN photos
    /\ \A r \in Reqs :
          (Done(r, "getById") /\ req[r].status = 200)
              => /\ req[r].id.v \in DOMAIN photos
                 /\ req[r].body.json.t = "obj"
                 /\ BodyRow(r).id = req[r].id.v
                 /\ BodyRow(r).url = photos[req[r].id.v].url
                 /\ BodyRow(r).tags = photos[req[r].id.v].tags
                 /\ BodyRow(r).createdAt = IsoString(photos[req[r].id.v].createdAt.t)

\* a getById of an absent id answered 404 after one store query
C5_Witness ==
    \E r \in Reqs :
        /\ Done(r, "getById") /\ NonEmptyString(req[r].id)
        /\ req[r].atStart = "absent" /\ req[r].status = 404
        /\ req[r].nQuery = 1

\* C6: on a cache hit the handler responds 200 with the deserialized cached
\* value; the Record Store is not queried and the cache is left as it was.
C6_CacheHitTouchesNothing ==
    [][\A r \in Reqs :
          (req[r].pc # "done" /\ req'[r].pc = "done" /\ req'[r].src = "cache")
              => /\ req'[r].op \in {"getById", "listByTags"}
                 /\ req'[r].key \in DOMAIN cache
                 /\ req'[r].status = 200
                 /\ req'[r].body = [json |-> cache[req'[r].key].value.json]
                 /\ req'[r].nQuery = 0 /\ req'[r].nSet = 0 /\ req'[r].nGet = 1
                 /\ cache' = cache
                 /\ photos' = photos]_vars

\* a tag listing answered from the cache
C6_Witness ==
    \E r \in Reqs :
        Done(r, "listByTags") /\ req[r].src = "cache" /\ req[r].status = 200

\* C7: every 200 answer of getById that comes from the store is sent by the
\* step that writes the cache: that step writes one entry, under
\* "photos:id:<id>", expiring 3600 s later, whose value is the serialized
\* record read from the store, and the body is that same serialized record.
C7_MissWritesThrough ==
    [][\A r \in Reqs :
          (req[r].pc # "done" /\ req'[r].pc = "done" /\ req'[r].op = "getById"
              /\ req'[r].status = 200 /\ req'[r].src = "store")
              => LET key == <<"photos:id:">> \o req[r].id.v
                     rec == req[r].result
                 IN /\ req[r].pc = "set"
                    /\ rec.t = "obj" /\ rec.v[1].id = req[r].id.v
                    /\ DOMAIN cache' = (DOMAIN cache) \cup {key}
                    /\ \A k \in DOMAIN cache : k # key => cache'[k] = cache[k]
                    /\ cache'[key].value = [json |-> ObjResult(RowToJSON(rec.v[1]))]
                    /\ cache'[key].expiresAt = now + 3600
                    /\ req'[r].body = cache'[key].value
                    /\ req'[r].nSet = 1 /\ req'[r].nQuery = 1]_vars

\* a getById answered 200 from the store, its record now in the cache
C7_Witness ==
    \E r \in Reqs :
        /\ Done(r, "getById") /\ req[r].src = "store" /\ req[r].status = 200
        /\ (<<"photos:id:">> \o req[r].id.v) \in DOMAIN cache
        /\ cache[<<"photos:id:">> \o req[r].id.v].value = req[r].body

\* C8: every value served from the cache was written at most 3600 s before,
\* and every cache entry expires 3600 s after the write of its value (a hit
\* does not extend it).
C8_StalenessBoundedByTtl ==
    /\ \A r \in Reqs :
          (req[r].pc = "done" /\ req[r].src = "cache")
              => (req[r].age >= 0 /\ req[r].age <= 3600)
    /\ \A k \in DOMAIN cache :
          /\ cache[k].expiresAt = cache[k].writtenAt + 3600
          /\ cache[k].writtenAt <= now
          /\ now < cache[k].expiresAt

\* a stale copy served from the cache part-way through its TTL: the store
\* holds the row tombstoned, the answer shows it live
C8_Witness ==
    \E r \in Reqs :
        /\ Done(r, "getById") /\ req[r].src = "cache"
        /\ req[r].age > 0
        /\ req[r].body.json.t = "obj"
        /\ BodyRow(r).deletedAt = Null
        /\ photos[req[r].id.v].deletedAt # Null

\* the set of the tags of a ?tags= string
TagSet(tags) == {TagList(tags)[i] : i \in DOMAIN TagList(tags)}

\* C9: two listByTags requests whose tag lists hold the same set of tags
\* derive the same cache key.
C9_TagKeyIgnoresOrder ==
    \A r1, r2 \in Reqs :
        (req[r1].op = "listByTags" /\ req[r2].op = "listByTags"
            /\ req[r1].key # <<>> /\ req[r2].key # <<>>
            /\ TagSet(req[r1].tags.v) = TagSet(req[r2].tags.v))
            => req[r1].key = req[r2].key

\* C10: getById with an empty or non-string id, and listByTags with an
\* empty, missing or non-string tags parameter, respond 400 with no cache
\* read, no cache write and no store query.
C10_ValidationBeforeAccess ==
    \A r \in Reqs :
        (\/ Done(r, "getById") /\ ~NonEmptyString(req[r].id)
         \/ Done(r, "listByTags") /\ ~NonEmptyString(req[r].tags))
            => /\ req[r].status = 400
               /\ req[r].nGet = 0 /\ req[r].nSet = 0 /\ req[r].nQuery = 0

\* a getById with the empty id answered 400
C10_Witness ==
    \E r \in Reqs :
        /\ Done(r, "getById") /\ req[r].id = Str(<<>>)
        /\ req[r].status = 400

\* the body of a 400 answer carrying the message msg
ErrorBody(msg) == [json |-> [t |-> "error", v |-> <<msg>>]]

\* handler r sends its answer in this step
Answers(r) == req[r].pc # "done" /\ req'[r].pc = "done"

\* C11: when uploads run one at a time, a photo upload with file and tags
\* present is rejected for capacity (400, no row created) iff the Photo table
\* holds 50 rows or more when it starts, and otherwise succeeds (201, one row
\* more) unless its imageId collides, its tags do not parse or the store
\* fails; the count never exceeds 50.  The same for videos with 20.
C11_CapacityBoundary ==
    [][\A r \in Reqs :
          (Answers(r) /\ ~Falsy(req'[r].file) /\ ~Falsy(req'[r].tags))
              => /\ req'[r].op = "upload" =>
                    LET n == Count(photos)
                        full == req'[r].body = ErrorBody("Photo storage limit reached (50)")
                    IN /\ req'[r].status = 201 => (n < 50 /\ Count(photos') = n + 1)
                       /\ req'[r].status # 201 => photos' = photos
                       /\ full => (n >= 50 /\ req'[r].status = 400)
                       /\ (n >= 50 /\ req'[r].err = "none") => full
                       /\ (n < 50 /\ req'[r].err = "none")
                             => \/ req'[r].status = 201
                                \/ /\ req'[r].status = 400
                                   /\ req'[r].id.type = "string"
                                   /\ req'[r].id.v \in DOMAIN photos
                       /\ Count(photos') <= 50
                 /\ req'[r].op = "uploadVideo" =>
                    LET n == Count(videos)
                        full == req'[r].body = ErrorBody("Video storage limit reached (20)")
                    IN /\ req'[r].status = 201 => (n < 20 /\ Count(videos') = n + 1)
                       /\ req'[r].status # 201 => videos' = videos
                       /\ full => (n >= 20 /\ req'[r].status = 400)
                       /\ (n >= 20 /\ req'[r].err = "none") => full
                       /\ (n < 20 /\ req'[r].err = "none") => req'[r].status = 201
                       /\ Count(videos') <= 20]_vars

\* the 51st photo upload, rejected for capacity while the table holds 50 rows
C11_Witness ==
    \E r \in Reqs :
        /\ Done(r, "upload") /\ req[r].status = 400
        /\ req[r].body = ErrorBody("Photo storage limit reached (50)")
        /\ Count(photos) = 50

\* C12: with at most N upload handlers in flight, interleaved arbitrarily
\* between their count query and their insert, the Photo table never holds
\* more than 50 + (N - 1) rows and the Video table never more than
\* 20 + (N - 1).
C12_OvershootBounded ==
    /\ Count(photos) <= 50 + (Cardinality(Reqs) - 1)
    /\ Count(videos) <= 20 + (Cardinality(Reqs) - 1)

\* both tables past their ceilings by N - 1 rows
C12_Witness ==
    /\ Count(photos) = 50 + (Cardinality(Reqs) - 1)
    /\ Count(videos) = 20 + (Cardinality(Reqs) - 1)

BodyIds(r) == {req[r].body.json.v[i].id : i \in DOMAIN req[r].body.json.v}

\* the ids of the stored photos that carry the tag "b"
TaggedB == {id \in DOMAIN photos : \E i \in DOMAIN photos[id].tags : photos[id].tags[i] = <<"b">>}

\* C14 as stated: after an upload with tags {a, b} has succeeded, a
\* listByTags([b]) returns a result that contains the created asset, in
\* every prior state of the cache.
C14_RoundTripAnyCache ==
    \A r \in Reqs :
        (Done(r, "listByTags") /\ req[r].tags = Str(<<"b">>) /\ req[r].err = "none"
            /\ TaggedB # {})
            => (req[r].status = 200 /\ TaggedB \subseteq BodyIds(r))

\* C14 amended: after an upload with tags {a, b} has succeeded, a
\* listByTags([b]) responds 200; answered from the store, its result contains
\* the created asset; answered from the cache, it is the entry as it was
\* written at most 3600 s before, which holds only rows of the store.
C14_RoundTripFromStore ==
    \A r \in Reqs :
        (Done(r, "listByTags") /\ req[r].tags = Str(<<"b">>) /\ req[r].err = "none"
            /\ TaggedB # {})
            => /\ req[r].status = 200
               /\ req[r].src \in {"store", "cache"}
               /\ req[r].src = "store" => BodyIds(r) = TaggedB
               /\ req[r].src = "cache"
                     => (req[r].age <= 3600 /\ BodyIds(r) \subseteq TaggedB)

\* a listing by "b" answered from the store that holds a row tagged a, b
C14_Witness ==
    \E r \in Reqs :
        /\ Done(r, "listByTags") /\ req[r].tags = Str(<<"b">>)
        /\ req[r].src = "store" /\ req[r].status = 200
        /\ \E id \in BodyIds(r) : photos[id].tags = << <<"a">>, <<"b">> >>

\* handler r answers a getById(x) from the store while handler o, which
\* missed the cache on x as well, has its own getById(x) in flight
ConcurrentMisses(r, o) ==
    /\ r # o
    /\ Done(r, "getById") /\ req[r].src = "store" /\ req[r].status = 200
    /\ req[o].op = "getById" /\ req[o].pc \in {"query", "set"}
    /\ req[o].id = req[r].id

\* C15 as stated: two concurrent getById(x) on a cold cache query the store
\* at most twice in total, and both responses are equal to the record the
\* store holds for x, under every interleaving with other handlers.
C15_ConcurrentLookupsAgree ==
    \A r, o \in Reqs :
        ConcurrentMisses(r, o)
            => /\ req[r].nQuery + req[o].nQuery <= 2
               /\ req[r].body = Stringify(ObjResult(photos[req[r].id.v]))
               /\ req[o].pc = "set"
                     => Stringify(req[o].result) = Stringify(ObjResult(photos[req[o].id.v]))

\* C15 amended: two concurrent getById(x) on a cold cache query the store
\* once each, and each response is the record as the store held it when that
\* handler read it: it has the id, url, tags and createdAt of the stored
\* record, shows no tombstone the store does not hold, and shows the
\* tombstone of every soft-delete that completed before the request arrived;
\* a soft-delete that executes between the read and the response is not
\* shown.
C15_ConcurrentLookupsReadOnce ==
    \A r, o \in Reqs :
        ConcurrentMisses(r, o)
            => LET row == photos[req[r].id.v]
                   sent == BodyRow(r)
               IN /\ req[r].nQuery = 1 /\ req[o].nQuery <= 1
                  /\ sent.id = row.id /\ sent.url = row.url /\ sent.tags = row.tags
                  /\ sent.createdAt = IsoString(row.createdAt.t)
                  /\ row.deletedAt = Null => sent.deletedAt = Null
                  /\ sent.deletedAt # Null => sent.deletedAt.t <= row.deletedAt.t
                  /\ req[r].atStart = "tomb" => sent.deletedAt # Null

\* of two concurrent misses on a tombstoned x, one answers with the tombstone
\* while the other holds what it read
C15_Witness ==
    \E r, o \in Reqs :
        /\ ConcurrentMisses(r, o)
        /\ req[r].atStart = "tomb"
        /\ req[o].pc = "set"
        /\ BodyRow(r).deletedAt = IsoString(photos[req[r].id.v].deletedAt.t)

\* the items and the other fields of a listing object in the body of r
Items(r) == req[r].body.json.v[1]
Meta(r) == req[r].body.json.v[2]
ItemIds(r) == {Items(r)[i].id : i \in DOMAIN Items(r)}

\* the set of the tags of a row
TagsOf(row) == {row.tags[i] : i \in DOMAIN row.tags}

\* handler r has just answered a GET /v1/videos request with 200
VideoListed(r) ==
    /\ req[r].pc = "done" /\ req[r].status = 200
    /\ req[r].op \in {VideoRoutes[i] : i \in DOMAIN VideoRoutes}

\* the page and the limit a request asks for (1 and 10 when it names none)
AskedPage(r) == IF req[r].page.type = "undefined" THEN 1 ELSE ParseInt(req[r].page.v)
AskedLimit(r) == IF req[r].limit.type = "undefined" THEN 10 ELSE ParseInt(req[r].limit.v)

\* the videos a listAll request matches: all, or those that have its ?tag=
AskedVideos(r) ==
    IF req[r].tag.type = "undefined" THEN DOMAIN videos
    ELSE {id \in DOMAIN videos : req[r].tag.v \in TagsOf(videos[id])}

\* C16: listAll over N matching records with page p >= 1 and limit L > 0
\* returns the records at offsets (p-1)*L .. min(p*L, N)-1 with
\* totalCount = N, totalPages = ceil(N / L), currentPage = p,
\* hasNextPage = (p < totalPages), hasPreviousPage = (p > 1); with limit = 0
\* it returns all N records with totalPages = 1, currentPage = null and
\* both flags false.
C16_PaginationArithmetic ==
    \A r \in Reqs :
        (VideoListed(r) /\ req[r].tags.type = "undefined")
            => LET N == Cardinality(AskedVideos(r))
                   p == AskedPage(r)
                   L == AskedLimit(r)
                   last == IF p * L < N THEN p * L ELSE N
                   held == IF last > (p - 1) * L THEN last - (p - 1) * L ELSE 0
               IN /\ req[r].body.json.t = "listing"
                  /\ ItemIds(r) \subseteq AskedVideos(r)
                  /\ Meta(r).totalVideos = N
                  /\ {"totalPages", "currentPage", "hasNextPage", "hasPreviousPage"}
                        \subseteq DOMAIN Meta(r)
                  /\ L > 0 => /\ Len(Items(r)) = held
                              /\ Meta(r).totalPages = (N + L - 1) \div L
                              /\ Meta(r).currentPage = p
                              /\ Meta(r).hasNextPage = (p < (N + L - 1) \div L)
                              /\ Meta(r).hasPreviousPage = (p > 1)
                  /\ L = 0 => /\ Len(Items(r)) = N
                              /\ Meta(r).totalPages = 1
                              /\ Meta(r).currentPage = Null
                              /\ Meta(r).hasNextPage = FALSE
                              /\ Meta(r).hasPreviousPage = FALSE

\* C17: in every listing response that carries items and a total count, the
\* count is the number of rows that matched in the state of the store the
\* items were read from (with limit = 0, the number of items returned), also
\* when uploads commit while the listing runs.
C17_ItemsAndCountOneSnapshot ==
    \A r \in Reqs :
        /\ (Done(r, "listPhotosPaged") /\ req[r].status = 200)
              => /\ Meta(r).totalPhotos = Cardinality(req[r].seen)
                 /\ req[r].limit = Str(<<"0">>) => Meta(r).totalPhotos = Len(Items(r))
        /\ (Done(r, "listAllVideos") /\ req[r].status = 200)
              => Meta(r).totalVideos = Len(Items(r))

\* C18: a listByTags answered from the store with at least one match returns
\* exactly the stored assets of its kind that have at least one tag of the
\* list; listAll with a tag filter returns exactly the assets that have
\* that tag.
C18_AnyOfMatching ==
    \A r \in Reqs :
        /\ (Done(r, "listByTags") /\ req[r].src = "store" /\ req[r].status = 200)
              => BodyIds(r) = {id \in DOMAIN photos :
                                  TagsOf(photos[id]) \cap TagSet(req[r].tags.v) # {}}
        /\ (VideoListed(r) /\ NonEmptyString(req[r].tags))
              => ItemIds(r) = {id \in DOMAIN videos :
                                  TagsOf(videos[id]) \cap TagSet(req[r].tags.v) # {}}
        /\ (VideoListed(r) /\ req[r].tags.type = "undefined"
               /\ req[r].page.type = "undefined" /\ req[r].limit.type = "undefined")
              => ItemIds(r) = AskedVideos(r)

\* C19: GET /v1/photos without a tags parameter responds 200 with
\* {photos, totalPhotos, totalPages, currentPage}, never with a validation
\* failure.
C19_PhotosWithoutTagsPaged ==
    \A r \in Reqs :
        (Done(r, "listByTags") /\ req[r].tags.type = "undefined")
            => /\ req[r].status # 400
               /\ req[r].err = "none"
                     => /\ req[r].status = 200
                        /\ req[r].body.json.t = "listing"
                        /\ DOMAIN Meta(r) = {"totalPhotos", "totalPages", "currentPage"}

\* the handler whose query shape a GET /v1/videos request has
ShapeOf(r) ==
    IF req[r].tags.type # "undefined" THEN "listVideosByTags"
    ELSE IF \E x \in {req[r].tag, req[r].page, req[r].limit} : x.type # "undefined"
    THEN "listVideosPaged"
    ELSE "listAllVideos"

\* C20: a GET /v1/videos request is answered by the handler that matches its
\* query shape, and GET /v1/videos?tags=T returns only videos that have at
\* least one tag of T.
C20_VideoTagListing ==
    \A r \in Reqs :
        VideoListed(r)
            => /\ req[r].op = ShapeOf(r)
               /\ NonEmptyString(req[r].tags)
                     => \A i \in DOMAIN Items(r) :
                            TagsOf(Items(r)[i]) \cap TagSet(req[r].tags.v) # {}

\* handler r has just answered a GET /v1/videos/:id request
VideoLookedUp(r) ==
    req[r].pc = "done" /\ req[r].method = "GET" /\ req[r].path = "/v1/videos/:id"

\* C21: GET /v1/videos/:id for an id present in the Video table responds 200
\* with that video, and 404 for an absent id.
C21_VideoByIdLookup ==
    \A r \in Reqs :
        (VideoLookedUp(r) /\ NonEmptyString(req[r].id))
            => IF req[r].id.v \in DOMAIN videos
               THEN /\ req[r].status = 200
                    /\ req[r].body.json.t = "obj"
                    /\ BodyRow(r).id = req[r].id.v
               ELSE req[r].status = 404

\* the table keeps every row it holds, with its id, url and tags
RowsKept(tbl, after) ==
    /\ DOMAIN tbl \subseteq DOMAIN after
    /\ \A id \in DOMAIN tbl :
          /\ after[id].id = tbl[id].id
          /\ after[id].url = tbl[id].url
          /\ after[id].tags = tbl[id].tags

\* the table differs at most in the deletedAt and updatedAt of the row `id`
OnlyTombstoned(tbl, after, id) ==
    /\ DOMAIN after = DOMAIN tbl
    /\ \A k \in DOMAIN tbl : k # id => after[k] = tbl[k]
    /\ id \in DOMAIN tbl
          => [after[id] EXCEPT !.deletedAt = Null, !.updatedAt = Null]
                 = [tbl[id] EXCEPT !.deletedAt = Null, !.updatedAt = Null]

\* C22: under every sequence of uploads, lookups and soft-deletes, no step
\* removes an id from the Photo or the Video table or changes the id, url or
\* tags of a row; a soft-delete changes only the deletedAt and updatedAt of
\* the row it addresses, and nothing in the table of the other kind.
C22_RecordsKeptAndImmutable ==
    [][/\ RowsKept(photos, photos')
       /\ RowsKept(videos, videos')
       /\ \A r \in Reqs :
             /\ (Answers(r) /\ req'[r].op = "delete")
                   => /\ videos' = videos
                      /\ req'[r].id.type = "string"
                            => OnlyTombstoned(photos, photos', req'[r].id.v)
                      /\ req'[r].id.type # "string" => photos' = photos
             /\ (Answers(r) /\ req'[r].op = "deleteVideo")
                   => /\ photos' = photos
                      /\ req'[r].id.type = "string"
                            => OnlyTombstoned(videos, videos', req'[r].id.v)
                      /\ req'[r].id.type # "string" => videos' = videos]_vars

\* a soft-delete of the photo x1 answered 200 while the table holds another
\* photo, live, and the Video table a tombstoned video
C22_Witness ==
    /\ \E r \in Reqs :
          /\ Done(r, "delete") /\ req[r].status = 200
          /\ photos[req[r].id.v].deletedAt # Null
          /\ \E b \in DOMAIN photos : b # req[r].id.v /\ photos[b].deletedAt = Null
    /\ \E a \in DOMAIN videos : videos[a].deletedAt # Null

\* C23: a soft-delete (DELETE /v1/photos/:id or /v1/videos/:id) of an id the
\* store does not hold responds 404 and leaves both tables and the cache as
\* they were; of an id it holds, it responds 200 and the body carries the
\* record with its deletedAt set, non-null: the record itself for a photo,
\* { message, video: record } for a video (unless the store fails).
C23_SoftDeleteUnknownId ==
    [][\A r \in Reqs :
          (Answers(r) /\ req'[r].op \in {"delete", "deleteVideo"}
              /\ NonEmptyString(req'[r].id) /\ req'[r].err # "store")
              => LET id == req'[r].id.v
                     photo == req'[r].op = "delete"
                     tbl == IF photo THEN photos ELSE videos
                     after == IF photo THEN photos' ELSE videos'
                 IN IF id \notin DOMAIN tbl
                    THEN /\ req'[r].status = 404
                         /\ req'[r].body.json.t = "error"
                         /\ photos' = photos /\ videos' = videos /\ cache' = cache
                    ELSE /\ req'[r].status = 200
                         /\ req'[r].body.json.t = IF photo THEN "obj" ELSE "message"
                         /\ req'[r].body.json.v[1] = RowToJSON(after[id])
                         /\ req'[r].body.json.v[1].id = id
                         /\ req'[r].body.json.v[1].deletedAt = IsoString(now)
                         /\ after[id].deletedAt = Date(now)]_vars

\* a soft-delete of a video id the store does not hold, answered 404 while
\* the cache holds an entry and both tables hold rows
C23_Witness ==
    \E r \in Reqs :
        /\ Done(r, "deleteVideo") /\ req[r].status = 404
        /\ req[r].id.v \notin DOMAIN videos
        /\ cache # <<>> /\ videos # <<>> /\ photos # <<>>

\* the store failed in the request handler r has just answered (a failed
\* query, or a violated unique constraint; not the P2025 of a soft-delete)
StoreFailed(r) == req[r].pc = "done" /\ req[r].err \in {"store", "unique"}

\* the answer of the generic error handler: 500 and a body { error: message }
GenericError(r) ==
    /\ req[r].status = 500
    /\ req[r].body.json.t = "error"
    /\ Len(req[r].body.json.v) = 1

\* the answer of the catch-all middleware
NoRouteAnswer(r) ==
    req[r].status = 404 /\ req[r].body = ErrorBody("Route not found")

\* C24 as stated: a Record Store failure in any handler (other than the
\* not-found case of soft-delete) is answered with status 500 and a body
\* holding only an error message field; a request matching no route is
\* answered 404 with the body { error: "Route not found" }.
C24_ErrorFallThrough ==
    \A r \in Reqs :
        /\ StoreFailed(r) => GenericError(r)
        /\ (req[r].pc = "done" /\ req[r].method # ""
               /\ <<req[r].method, req[r].path>> \notin Registered)
              => NoRouteAnswer(r)

\* C24 amended: a Record Store failure in any handler of the /v1 routes
\* (other than the not-found case of soft-delete) is answered with status
\* 500 and a body holding only an error message field; a store failure in
\* GET /health is answered 500 with { status: "unhealthy", error: message };
\* a request matching no route is answered 404 with
\* { error: "Route not found" }.
C24_ErrorFallThroughV1 ==
    \A r \in Reqs :
        /\ (StoreFailed(r) /\ req[r].op # "health") => GenericError(r)
        /\ (StoreFailed(r) /\ req[r].op = "health")
              => /\ req[r].status = 500
                 /\ req[r].body.json.t = "status"
                 /\ req[r].body.json.v[1] = "unhealthy"
        /\ (req[r].pc = "done" /\ req[r].method # ""
               /\ <<req[r].method, req[r].path>> \notin Registered)
              => NoRouteAnswer(r)

\* an upload whose insert the store refused (the id was taken meanwhile),
\* answered by the generic error handler
C24_Witness ==
    \E r \in Reqs :
        /\ Done(r, "upload") /\ req[r].err = "unique"
        /\ GenericError(r)

\* C25: every getById and listByTags request eventually receives a response,
\* also when the cache backend never answers a get or a setEx.
C25_NoRequestHangs ==
    \A r \in Reqs :
        (req[r].op \in {"getById", "listByTags"} /\ req[r].pc \in {"get", "query", "set"})
            ~> (req[r].pc = "done")

\* the by-id entries of the cache: the keys "photos:id:<x>" (no route of the
\* server writes an entry "videos:id:<x>")
ByIdKeys(c) == {k \in DOMAIN c : Head(k) = "photos:id:"}

\* the entry under "photos:id:<x>" is a copy of the row the table holds under
\* x: its id, its url and its tags
CopiesOfRows(c, tbl) ==
    \A k \in ByIdKeys(c) :
        LET x == Tail(k)
            copy == c[k].value.json
        IN /\ x \in DOMAIN tbl
           /\ copy.t = "obj"
           /\ copy.v[1].id = x
           /\ copy.v[1].url = tbl[x].url
           /\ copy.v[1].tags = tbl[x].tags

\* C26: in every reachable state each by-id cache entry under
\* "photos:id:<x>" holds a copy of a row that the Photo table holds under x,
\* with the same url and tags; and in the step that creates the row x no
\* by-id entry for x exists, before or after it.
C26_CacheCopiesStore ==
    /\ [](CopiesOfRows(cache, photos))
    /\ [][\A x \in (DOMAIN photos') \ (DOMAIN photos) :
             /\ (<<"photos:id:">> \o x) \notin DOMAIN cache
             /\ (<<"photos:id:">> \o x) \notin DOMAIN cache']_vars

\* the cache holds the copy of x1 made while it was live, and the store
\* holds x1 tombstoned
C26_Witness ==
    \E k \in ByIdKeys(cache) :
        /\ cache[k].value.json.v[1].deletedAt = Null
        /\ photos[Tail(k)].deletedAt # Null

\* handler r, which missed the cache on its key, writes the entry in this
\* step while the key holds an entry again: one that another handler, which
\* missed on the same key as well, has written since
SecondWrite(r) ==
    /\ Answers(r)
    /\ req'[r].op \in {"getById", "listByTags"}
    /\ req'[r].src = "store" /\ req'[r].status = 200
    /\ req[r].key \in DOMAIN cache

\* C27: whenever two handlers miss on the same key concurrently and both
\* write the cache, the two written values are equal, so the entry left in
\* the cache does not depend on which write lands last, under every
\* interleaving with uploads and soft-deletes.
C27_ConcurrentWritesEqual ==
    [][\A r \in Reqs :
          SecondWrite(r) => cache'[req[r].key].value = cache[req[r].key].value]_vars

\* C28: of concurrent uploads with the same supplied imageId, under every
\* interleaving of their existence check and insert, each one either creates
\* the row (201) or is rejected with status 400 as a conflict, unless its
\* store query fails.
C28_ConcurrentSameIdUploads ==
    \A r \in Reqs :
        (Done(r, "upload") /\ req[r].id.type = "string"
            /\ req[r].err \notin {"store", "parse"})
            => \/ /\ req[r].status = 201
                  /\ BodyRow(r).id = req[r].id.v
               \/ /\ req[r].status = 400
                  /\ req[r].body = ErrorBody("Photo ID already exists")

\* every row of the table that is tombstoned stays tombstoned
StaysTombstoned(tbl, after) ==
    \A id \in DOMAIN tbl : tbl[id].deletedAt # Null => after[id].deletedAt # Null

\* C29: no step sets the deletedAt of a tombstoned row back to null; a
\* soft-delete of a row that is already tombstoned responds 200 (not 404),
\* writes the time of this delete as its deletedAt and leaves it tombstoned
\* (unless the store fails).
C29_TombstoneMonotonic ==
    [][/\ StaysTombstoned(photos, photos')
       /\ StaysTombstoned(videos, videos')
       /\ \A r \in Reqs :
             (Answers(r) /\ req'[r].op \in {"delete", "deleteVideo"}
                 /\ NonEmptyString(req'[r].id) /\ req'[r].err # "store")
                 => LET id == req'[r].id.v
                        tbl == IF req'[r].op = "delete" THEN photos ELSE videos
                        after == IF req'[r].op = "delete" THEN photos' ELSE videos'
                    IN (id \in DOMAIN tbl /\ tbl[id].deletedAt # Null)
                          => /\ req'[r].status = 200
                             /\ after[id].deletedAt = Date(now)
                             /\ req'[r].body.json.v[1].deletedAt = IsoString(now)]_vars

\* a second soft-delete of x1 answered 200 with a later deletedAt than the
\* one another handler read from the store before it
C29_Witness ==
    \E r, o \in Reqs :
        /\ Done(r, "delete") /\ req[r].status = 200
        /\ req[o].pc = "set" /\ req[o].op = "getById" /\ req[o].id = req[r].id
        /\ req[o].result.v[1].deletedAt # Null
        /\ photos[req[r].id.v].deletedAt.t > req[o].result.v[1].deletedAt.t

\* handler r has just rejected an upload of the kind of op for capacity
CapacityRejected(r, op) ==
    /\ Done(r, op)
    /\ req[r].status = 400
    /\ req[r].body = ErrorBody(IF op = "upload" THEN "Photo storage limit reached (50)"
                               ELSE "Video storage limit reached (20)")

\* C30: once an upload of a kind has been rejected for capacity in a state
\* with no upload of that kind in flight, every later upload of that kind
\* (with file and tags, answered by the store) is rejected for capacity as
\* well, whatever soft-deletes happen in between.
C30_DeleteFreesNoCapacity ==
    /\ []((\E r \in Reqs : CapacityRejected(r, "upload") /\ Uploading = {})
            => [](\A r \in Reqs :
                     (Done(r, "upload") /\ req[r].err # "store")
                         => CapacityRejected(r, "upload")))
    /\ []((\E r \in Reqs : CapacityRejected(r, "uploadVideo") /\ VideoUploading = {})
            => [](\A r \in Reqs :
                     (Done(r, "uploadVideo") /\ req[r].err # "store")
                         => CapacityRejected(r, "uploadVideo")))

\* an upload rejected for capacity while the first and the last of the 50
\* photos are tombstoned
C30_Witness ==
    \E r \in Reqs :
        /\ CapacityRejected(r, "upload")
        /\ photos[CuidSeq[1]].deletedAt # Null
        /\ photos[CuidSeq[PhotoLimit]].deletedAt # Null

\* handler r holds a request that has derived its cache key
Keyed(r) == req[r].op \in {"getById", "listByTags"} /\ req[r].key # <<>>

\* C31: two requests derive the same cache key (the same string) only if
\* they are of the same lookup type with the same id, or the same sequence of
\* trimmed tags; the key of a photo request is never the key the video tag
\* listing derives; and a cache hit returns a result of the request's own
\* query: the record of the requested id, or rows that each have one of the
\* requested tags.
C31_KeyDeterminesQuery ==
    /\ \A r1, r2 \in Reqs :
          (Keyed(r1) /\ Keyed(r2) /\ KeyText(req[r1].key) = KeyText(req[r2].key))
              => /\ req[r1].op = req[r2].op
                 /\ req[r1].op = "getById" => req[r1].id = req[r2].id
                 /\ req[r1].op = "listByTags"
                       => TagList(req[r1].tags.v) = TagList(req[r2].tags.v)
    /\ \A r1, r2 \in Reqs :
          (Keyed(r1) /\ Keyed(r2) /\ req[r2].op = "listByTags")
              => KeyText(req[r1].key) # KeyText(VideoTagsKey(TagList(req[r2].tags.v)))
    /\ \A k1, k2 \in DOMAIN cache : KeyText(k1) = KeyText(k2) => k1 = k2
    /\ \A r \in Reqs :
          (Keyed(r) /\ req[r].pc = "done" /\ req[r].src = "cache")
              => IF req[r].op = "getById"
                 THEN /\ req[r].body.json.t = "obj"
                      /\ BodyRow(r).id = req[r].id.v
                 ELSE /\ req[r].body.json.t = "arr"
                      /\ \A i \in DOMAIN req[r].body.json.v :
                            HasSome(req[r].body.json.v[i], TagList(req[r].tags.v))

\* a lookup of the id a answered from the cache while the cache also holds
\* the listing of the tag a
C31_Witness ==
    \E r \in Reqs :
        /\ Done(r, "getById") /\ req[r].src = "cache"
        /\ req[r].id = Str(<<"a">>)
        /\ TagsKey(<< <<"a">> >>) \in DOMAIN cache

\* handler r takes a step of an upload or a soft-delete
WriteStep(r) ==
    /\ req'[r] # req[r]
    /\ req'[r].op \in {"upload", "uploadVideo", "delete", "deleteVideo"}

\* C32: no step of an upload or a soft-delete handler reads or writes the
\* cache, and every upload answered with a status other than 201 (missing
\* file, missing tags, capacity, id collision, unparsable tags, store error)
\* leaves both tables as they were, as does every step of an upload before
\* its answer.
C32_WritesSkipCache ==
    [][\A r \in Reqs :
          /\ WriteStep(r)
                => /\ cache' = cache
                   /\ req'[r].nGet = 0 /\ req'[r].nSet = 0
          /\ (WriteStep(r) /\ req'[r].op \in {"upload", "uploadVideo"}
                 /\ ~(req'[r].pc = "done" /\ req'[r].status = 201))
                => (photos' = photos /\ videos' = videos)]_vars

\* an upload whose imageId is taken, answered 400 while the cache holds the
\* copy of that photo
C32_Witness ==
    \E r \in Reqs :
        /\ Done(r, "upload") /\ req[r].status = 400
        /\ req[r].body = ErrorBody("Photo ID already exists")
        /\ (<<"photos:id:">> \o req[r].id.v) \in DOMAIN cache

\* the cache key of the listing by the tag "b"
KeyB == <<"photos:tags:">> \o <<"b">>

\* handler r has just answered a listing by the tag "b" that no call failed in
ListedB(r) ==
    Done(r, "listByTags") /\ req[r].tags = Str(<<"b">>) /\ req[r].err = "none"

\* C33: with requests that arrive one at a time, a listByTags that misses
\* the cache and matches no photo responds 404 after one store query and
\* writes no cache entry; while no photo has the tag the cache holds no entry
\* for the listing, so none exists when the first photo with the tag is
\* uploaded, and a listing that then misses the cache is answered from the
\* store with exactly the photos that have the tag.
C33_EmptyListingNotCached ==
    /\ [](TaggedB = {} => KeyB \notin DOMAIN cache)
    /\ [](\A r \in Reqs :
             /\ (ListedB(r) /\ TaggedB = {})
                   => /\ req[r].status = 404
                      /\ req[r].nGet = 1 /\ req[r].nQuery = 1 /\ req[r].nSet = 0
             /\ (ListedB(r) /\ TaggedB # {} /\ req[r].src # "cache")
                   => /\ req[r].status = 200 /\ req[r].src = "store"
                      /\ BodyIds(r) = TaggedB)
    /\ [][/\ \A r \in Reqs :
                (Answers(r) /\ req'[r].op = "listByTags" /\ req'[r].status = 404)
                    => cache' = cache
          /\ (TaggedB = {} /\ TaggedB' # {}) => KeyB \notin DOMAIN cache']_vars

\* a listing by "b" answered 404 while the table holds a photo, tagged "a"
\* alone, and the cache holds nothing under the listing's key
C33_Witness ==
    \E r \in Reqs :
        /\ ListedB(r) /\ req[r].status = 404
        /\ photos # <<>>
        /\ KeyB \notin DOMAIN cache

====
